---------------------------- MODULE Spec2Model ----------------------------
(***************************************************************************)
(* Model of mainz-events: the pagination-driven extraction pipeline of     *)
(* internal/scraper/scraper.go (sequential iterators, parallel collectors, *)
(* ScrapeEvent) and its callers.                                           *)
(*                                                                         *)
(* The listing site is a function from page index to what a GET of that    *)
(* page gives: "fail" (transport error, non-200 status or parse error),    *)
(* "empty" (a document with no matching node), "plain" (a document with    *)
(* RecsPerPage matching nodes, none with a well-formed startDate/endDate)  *)
(* or "dated" (the same, every node with well-formed dates).  Pages above  *)
(* MaxPage have no matching node.                                          *)
(***************************************************************************)
EXTENDS Integers, Sequences, FiniteSets, TLC

VARIABLES
    site,        \* page index -> outcome of fetching that page
    kind,        \* "links" (EventLinkIterator / GetAllEventLinks*) or "previews"
    e,           \* the sequential iterator: [currentPage, links, hasMore]
    ret,         \* what the last call of Next returned: [val, ok]
    nCalls,      \* number of calls of Next made so far
    falseAt,     \* history: index of the first call that returned ok=false, 0 if none
    fetchLog,    \* history: the pages fetchNextPage requested, with what they gave
    output,      \* history: the values Next returned with ok=true, in order
    pc,          \* where the caller of the collectors / the collecting goroutine is
    seqAll,      \* what GetAllEventLinks / GetAllEventPreviews returned
    allLinks,    \* GetAllEvent*Parallel: the accumulator
    currentPage, \* GetAllEvent*Parallel: the page cursor
    hasMore,     \* GetAllEvent*Parallel: the loop flag
    linksChan,   \* the round's channel: the page results sent and not yet received
    closed,      \* whether the round's channel is closed
    wg,          \* the round's WaitGroup counter
    i,           \* the spawn loop's index
    pageLinksCount, \* page results received in the round
    task,        \* per fetch goroutine of the round: where it is
    pageLinks,   \* per fetch goroutine: its local pageLinks / pagePreviews
    closer,      \* the goroutine that waits and closes: "idle", "waiting", "done"
    round,       \* history: rounds started
    sent,        \* history: the pages whose results were sent, in the order of the sends
    closes,      \* history: the calls of close(linksChan) made so far
    halted,      \* "no", or how the process ended: "fatal" (log.Fatalln), "panic"
    resp,        \* ScrapeEvent: what the GET of the event's URL gives
    result,      \* ScrapeEvent: what it returned, [event, err] ("pending" before)
    mainPc,      \* main (main.go): "idle", "next", "scrape" or "exited"
    link,        \* main: the link the iterator returned last
    cal,         \* main: the events added to the calendar, in order
    saves        \* main: the calls of cal.Save() made so far

iterVars == <<e, ret, nCalls, falseAt, fetchLog, output>>
parVars == <<pc, seqAll, allLinks, currentPage, hasMore, linksChan, closed, wg, i,
             pageLinksCount, task, pageLinks, closer, round, sent, closes, halted>>
scrapeVars == <<resp, result>>
mainVars == <<mainPc, link, cal, saves>>
vars == <<site, kind, iterVars, parVars, scrapeVars, mainVars>>

-----------------------------------------------------------------------------
(* Bounds of the model *)

\* pages 1..MaxPage may have content; every page above is empty
MaxPage == 4
\* calls of Next a caller of the iterator makes
MaxCalls == 7
\* matching nodes of a page that has any
RecsPerPage == 2
\* pages fetched concurrently per round.  The code sets batchSize := 10
\* (scraper.go:154 and :372); the collectors are modelled for any value and
\* checked with this one, which keeps the interleavings of a round enumerable.
batchSize == 3

-----------------------------------------------------------------------------
(* The site *)

Kinds == {"links", "previews"}

\* what a page can be, per kind: the link iterator looks at <a href> only, so
\* the teaser dates are not part of what it sees
Outcomes(k) == IF k = "links" THEN {"fail", "empty", "plain"}
               ELSE {"fail", "empty", "plain", "dated"}

Pages == 1..MaxPage

\* http.Get + goquery.NewDocumentFromReader of ?sp-page=p
Fetch(s, p) == IF p \in DOMAIN s THEN s[p] ELSE "empty"

\* one extracted record: the n-th matching node of page p.  time is "parsed"
\* when the node's startDate/endDate were parsed into StartTime/EndTime and
\* "zero" when they were left at the zero instant (a link has no time).
Rec(p, n, t) == [page |-> p, idx |-> n, time |-> t]

\* doc.Find(...).Each(...) of the sequential iterators: the records of a
\* fetched page, in document order
PageRecords(k, s, p) ==
    LET o == Fetch(s, p) IN
    IF o \in {"plain", "dated"}
    THEN [n \in 1..RecsPerPage |->
            Rec(p, n, IF k = "previews" /\ o = "dated" THEN "parsed" ELSE "zero")]
    ELSE <<>>

-----------------------------------------------------------------------------
(* Sequential iterator: EventLinkIterator / EventPreviewIterator *)

NewEventLinkIterator == [currentPage |-> 1, links |-> <<>>, hasMore |-> TRUE]

NoRecord == [page |-> 0, idx |-> 0, time |-> "zero"]

\* fetchNextPage with every failure path forgetting to clear hasMore
FetchNextPageKeepsHasMore(it, k, s) ==
    LET found == PageRecords(k, s, it.currentPage) IN
    IF Len(found) = 0
    THEN it
    ELSE [it EXCEPT !.links = found, !.currentPage = it.currentPage + 1]

\* fetchNextPage moving the page counter on a failed or empty page too
FetchNextPageAlwaysAdvances(it, k, s) ==
    LET found == PageRecords(k, s, it.currentPage) IN
    IF Len(found) = 0
    THEN [it EXCEPT !.hasMore = FALSE, !.currentPage = it.currentPage + 1]
    ELSE [it EXCEPT !.links = found, !.currentPage = it.currentPage + 1]

\* fetchNextPage storing the page's records without e.currentPage++
FetchNextPageStays(it, k, s) ==
    LET found == PageRecords(k, s, it.currentPage) IN
    IF Len(found) = 0
    THEN [it EXCEPT !.hasMore = FALSE]
    ELSE [it EXCEPT !.links = found]

\* fetchNextPage: the iterator after fetching page it.currentPage
fetchNextPage(it, k, s) ==
    LET o == Fetch(s, it.currentPage)
        found == PageRecords(k, s, it.currentPage) IN
    IF o = "fail"
    THEN [it EXCEPT !.hasMore = FALSE]
    ELSE IF Len(found) = 0
    THEN [it EXCEPT !.hasMore = FALSE]
    ELSE [it EXCEPT !.links = found, !.currentPage = it.currentPage + 1]

\* whether Next on iterator it issues a fetch
NextFetches(it) == Len(it.links) = 0 /\ it.hasMore

\* Next starting over from page 1 once the iterator is exhausted
IterNextResets(it, k, s) ==
    IF Len(it.links) > 0
    THEN [it  |-> [it EXCEPT !.links = Tail(it.links)],
          val |-> Head(it.links), ok |-> TRUE]
    ELSE IF ~it.hasMore
    THEN [it |-> NewEventLinkIterator, val |-> NoRecord, ok |-> FALSE]
    ELSE LET f == fetchNextPage(it, k, s) IN
         IF Len(f.links) > 0
         THEN [it  |-> [f EXCEPT !.links = Tail(f.links)],
               val |-> Head(f.links), ok |-> TRUE]
         ELSE [it |-> f, val |-> NoRecord, ok |-> FALSE]

\* Next cutting two records off a freshly fetched page instead of one
IterNextDropsSecond(it, k, s) ==
    IF Len(it.links) > 0
    THEN [it  |-> [it EXCEPT !.links = Tail(it.links)],
          val |-> Head(it.links), ok |-> TRUE]
    ELSE IF ~it.hasMore
    THEN [it |-> it, val |-> NoRecord, ok |-> FALSE]
    ELSE LET f == fetchNextPage(it, k, s) IN
         IF Len(f.links) > 0
         THEN [it  |-> [f EXCEPT !.links = Tail(Tail(f.links))],
               val |-> Head(f.links), ok |-> TRUE]
         ELSE [it |-> f, val |-> NoRecord, ok |-> FALSE]

\* Next: [it |-> the iterator afterwards, val, ok |-> the pair returned]
IterNext(it, k, s) ==
    IF Len(it.links) > 0
    THEN [it  |-> [it EXCEPT !.links = Tail(it.links)],
          val |-> Head(it.links), ok |-> TRUE]
    ELSE IF ~it.hasMore
    THEN [it |-> it, val |-> NoRecord, ok |-> FALSE]
    ELSE LET f == fetchNextPage(it, k, s) IN
         IF Len(f.links) > 0
         THEN [it  |-> [f EXCEPT !.links = Tail(f.links)],
               val |-> Head(f.links), ok |-> TRUE]
         ELSE [it |-> f, val |-> NoRecord, ok |-> FALSE]

InitSite ==
    /\ kind \in Kinds
    /\ site \in [Pages -> Outcomes(kind)]

InitIter ==
    /\ e = NewEventLinkIterator
    /\ ret = [val |-> NoRecord, ok |-> TRUE]
    /\ nCalls = 0
    /\ falseAt = 0
    /\ fetchLog = <<>>
    /\ output = <<>>

\* a caller calls e.Next()
CallNext ==
    /\ nCalls < MaxCalls
    /\ LET r == IterNext(e, kind, site) IN
        /\ e' = r.it
        /\ ret' = [val |-> r.val, ok |-> r.ok]
        /\ nCalls' = nCalls + 1
        /\ falseAt' = IF ~r.ok /\ falseAt = 0 THEN nCalls + 1 ELSE falseAt
        /\ fetchLog' = IF NextFetches(e)
                       THEN Append(fetchLog, [page |-> e.currentPage,
                                              got  |-> Fetch(site, e.currentPage)])
                       ELSE fetchLog
        /\ output' = IF r.ok THEN Append(output, r.val) ELSE output
    /\ UNCHANGED <<site, kind, parVars, scrapeVars, mainVars>>

\* the site changes between two requests: one page gets another content
SiteChange ==
    /\ \E p \in Pages : \E o \in Outcomes(kind) :
          /\ o # site[p]
          /\ site' = [site EXCEPT ![p] = o]
    /\ UNCHANGED <<kind, iterVars, parVars, scrapeVars, mainVars>>

InitParLocals ==
    /\ seqAll = <<>>
    /\ allLinks = <<>>
    /\ currentPage = 1
    /\ hasMore = TRUE
    /\ linksChan = <<>>
    /\ closed = FALSE
    /\ wg = 0
    /\ i = 0
    /\ pageLinksCount = 0
    /\ task = [j \in 0..(batchSize - 1) |-> "none"]
    /\ pageLinks = [j \in 0..(batchSize - 1) |-> <<>>]
    /\ closer = "idle"
    /\ round = 0
    /\ sent = <<>>
    /\ closes = 0
    /\ halted = "no"

InitPar ==
    /\ pc = "seq"
    /\ InitParLocals


-----------------------------------------------------------------------------
(* GetAllEventLinks / GetAllEventPreviews: the sequential collectors *)

RECURSIVE CollectLoop(_, _, _, _)
\* the for loop: call Next until it returns ok=false
CollectLoop(it, k, s, acc) ==
    LET r == IterNext(it, k, s) IN
    IF ~r.ok THEN acc ELSE CollectLoop(r.it, k, s, Append(acc, r.val))

GetAllEventLinks(k, s) == CollectLoop(NewEventLinkIterator, k, s, <<>>)

\* the caller runs the sequential collector (single-threaded, to completion)
CallSequential ==
    /\ pc = "seq"
    /\ halted = "no"
    /\ UNCHANGED <<sent, closes>>
    /\ seqAll' = GetAllEventLinks(kind, site)
    /\ pc' = "par"
    /\ UNCHANGED <<site, kind, iterVars, scrapeVars, mainVars,
                   allLinks, currentPage, hasMore, linksChan,
                   closed, wg, i, pageLinksCount, task, pageLinks, closer, round,
                   halted>>

-----------------------------------------------------------------------------
(* GetAllEventLinksParallel / GetAllEventPreviewsParallel *)

Tasks == 0..(batchSize - 1)

\* the page goroutine j of the current round was started with: currentPage + i
PageOf(j) == currentPage + j

\* the Each callback of the parallel collectors.  In GetAllEventPreviewsParallel
\* a node whose startDate (or endDate) parses reaches log.Fatalln, which ends
\* the process; GetAllEventLinksParallel has no such call.
ParseFatal(k, s, p) == k = "previews" /\ Fetch(s, p) = "dated"

ParallelPageRecords(k, s, p) ==
    IF Fetch(s, p) \in {"plain", "dated"}
    THEN [n \in 1..RecsPerPage |-> Rec(p, n, "zero")]
    ELSE <<>>

\* the caller enters GetAllEvent*Parallel: its locals are initialised
CallParallel ==
    /\ pc = "par"
    /\ halted = "no"
    /\ UNCHANGED <<sent, closes>>
    /\ allLinks' = <<>>
    /\ currentPage' = 1
    /\ hasMore' = TRUE
    /\ pc' = "loop"
    /\ UNCHANGED <<site, kind, iterVars, scrapeVars, mainVars,
                   seqAll, linksChan, closed, wg, i,
                   pageLinksCount, task, pageLinks, closer, round, halted>>

\* for hasMore { var wg; linksChan := make(chan, batchSize) ... } / return allLinks
LoopTest ==
    /\ pc = "loop"
    /\ halted = "no"
    /\ UNCHANGED <<sent, closes>>
    /\ IF hasMore
       THEN /\ pc' = "spawn"
            /\ wg' = 0
            /\ linksChan' = <<>>
            /\ closed' = FALSE
            /\ i' = 0
            /\ task' = [j \in Tasks |-> "none"]
            /\ pageLinks' = [j \in Tasks |-> <<>>]
            /\ closer' = "idle"
            /\ round' = round + 1
       ELSE /\ pc' = "returned"
            /\ UNCHANGED <<wg, linksChan, closed, i, task, pageLinks, closer, round>>
    /\ UNCHANGED <<site, kind, iterVars, scrapeVars, mainVars,
                   seqAll, allLinks, currentPage, hasMore,
                   pageLinksCount, halted>>

\* one iteration of the spawn loop: wg.Add(1); go func(page int) {...}(currentPage + i)
Spawn ==
    /\ pc = "spawn"
    /\ halted = "no"
    /\ UNCHANGED <<sent, closes>>
    /\ i < batchSize
    /\ wg' = wg + 1
    /\ task' = [task EXCEPT ![i] = "fetch"]
    /\ i' = i + 1
    /\ UNCHANGED <<site, kind, iterVars, scrapeVars, mainVars,
                   pc, seqAll, allLinks, currentPage, hasMore,
                   linksChan, closed, pageLinksCount, pageLinks, closer, round, halted>>

\* after the spawn loop: go func() { wg.Wait(); close(linksChan) }(); pageLinksCount := 0
StartCloser ==
    /\ pc = "spawn"
    /\ halted = "no"
    /\ UNCHANGED <<sent, closes>>
    /\ i >= batchSize
    /\ closer' = "waiting"
    /\ pageLinksCount' = 0
    /\ pc' = "collect"
    /\ UNCHANGED <<site, kind, iterVars, scrapeVars, mainVars,
                   seqAll, allLinks, currentPage, hasMore,
                   linksChan, closed, wg, i, task, pageLinks, round, halted>>

\* goroutine j: http.Get, status check, parse and the Each loop.  A failed
\* fetch or a page without a matching node returns (the deferred wg.Done runs).
\* http.Get has no timeout: a request that is never answered ("hang") never
\* lets the goroutine go on.
TaskFetch(j) ==
    /\ task[j] = "fetch"
    /\ halted = "no"
    /\ Fetch(site, PageOf(j)) # "hang"
    /\ UNCHANGED <<sent, closes>>
    /\ LET p == PageOf(j)
           found == ParallelPageRecords(kind, site, p) IN
       IF Fetch(site, p) = "fail" \/ (Len(found) = 0 /\ ~ParseFatal(kind, site, p))
       THEN /\ task' = [task EXCEPT ![j] = "done"]
            /\ wg' = wg - 1
            /\ UNCHANGED <<pageLinks, halted>>
       ELSE IF ParseFatal(kind, site, p)
       THEN /\ halted' = "fatal"
            /\ UNCHANGED <<task, wg, pageLinks>>
       ELSE /\ pageLinks' = [pageLinks EXCEPT ![j] = found]
            /\ task' = [task EXCEPT ![j] = "send"]
            /\ UNCHANGED <<wg, halted>>
    /\ UNCHANGED <<site, kind, iterVars, scrapeVars, mainVars,
                   pc, seqAll, allLinks, currentPage, hasMore,
                   linksChan, closed, i, pageLinksCount, closer, round>>

\* a channel two slots smaller than the batch
ChanCapSmaller == batchSize - 2

\* linksChan := make(chan []string, batchSize): the channel's capacity
ChanCap == batchSize

\* goroutine j: linksChan <- pageLinks (blocks while the buffer is full, panics
\* on a closed channel)
TaskSend(j) ==
    /\ task[j] = "send"
    /\ halted = "no"
    /\ UNCHANGED closes
    /\ closed \/ Len(linksChan) < ChanCap
    /\ IF closed
       THEN /\ halted' = "panic"
            /\ UNCHANGED <<linksChan, task, sent>>
       ELSE /\ linksChan' = Append(linksChan, pageLinks[j])
            /\ task' = [task EXCEPT ![j] = "exit"]
            /\ sent' = Append(sent, PageOf(j))
            /\ UNCHANGED halted
    /\ UNCHANGED <<site, kind, iterVars, scrapeVars, mainVars,
                   pc, seqAll, allLinks, currentPage, hasMore,
                   closed, wg, i, pageLinksCount, pageLinks, closer, round>>

\* goroutine j returns after its send: the deferred wg.Done()
TaskDone(j) ==
    /\ task[j] = "exit"
    /\ halted = "no"
    /\ UNCHANGED <<sent, closes>>
    /\ wg' = wg - 1
    /\ task' = [task EXCEPT ![j] = "done"]
    /\ UNCHANGED <<site, kind, iterVars, scrapeVars, mainVars,
                   pc, seqAll, allLinks, currentPage, hasMore,
                   linksChan, closed, i, pageLinksCount, pageLinks, closer, round,
                   halted>>

\* a Wait that returns while one goroutine has not called Done yet
WaitReturnsEarly(n) == n <= 1

\* when wg.Wait() may return
WaitReturns(n) == n = 0

\* the closing goroutine: wg.Wait() returns, close(linksChan)
CloserClose ==
    /\ closer = "waiting"
    /\ halted = "no"
    /\ UNCHANGED sent
    /\ WaitReturns(wg)
    /\ closed' = TRUE
    /\ closes' = closes + 1
    /\ closer' = "done"
    /\ UNCHANGED <<site, kind, iterVars, scrapeVars, mainVars,
                   pc, seqAll, allLinks, currentPage, hasMore,
                   linksChan, wg, i, pageLinksCount, task, pageLinks, round, halted>>

\* allLinks = links: the accumulator overwritten instead of appended to
MergeKeepsLast(acc, links) == links

\* the page's records put in front of the accumulator
MergePrepend(acc, links) == links \o acc

\* allLinks = append(allLinks, links...)
Merge(acc, links) == acc \o links

\* one iteration of: for links := range linksChan { append; pageLinksCount++ }
Receive ==
    /\ pc = "collect"
    /\ halted = "no"
    /\ UNCHANGED <<sent, closes>>
    /\ Len(linksChan) > 0
    /\ allLinks' = Merge(allLinks, Head(linksChan))
    /\ linksChan' = Tail(linksChan)
    /\ pageLinksCount' = pageLinksCount + 1
    /\ UNCHANGED <<site, kind, iterVars, scrapeVars, mainVars,
                   pc, seqAll, currentPage, hasMore, closed, wg,
                   i, task, pageLinks, closer, round, halted>>

\* stop after the first round whatever it gave
StillMoreNever(count, more) == FALSE

\* go on as long as some page of the round gave a record
StillMoreIfAny(count, more) == IF count = 0 THEN FALSE ELSE more

\* if pageLinksCount < batchSize { hasMore = false }
StillMore(count, more) == IF count < batchSize THEN FALSE ELSE more

\* currentPage += pageLinksCount: the cursor moved by the pages that gave records
AdvanceByCount(page, count) == page + count

\* currentPage += batchSize
Advance(page, count) == page + batchSize

\* the range loop ends (channel closed and drained); the termination decision
\* and the cursor's advance
EndRound ==
    /\ pc = "collect"
    /\ halted = "no"
    /\ UNCHANGED <<sent, closes>>
    /\ Len(linksChan) = 0
    /\ closed
    /\ hasMore' = StillMore(pageLinksCount, hasMore)
    /\ currentPage' = Advance(currentPage, pageLinksCount)
    /\ pc' = "loop"
    /\ UNCHANGED <<site, kind, iterVars, scrapeVars, mainVars,
                   seqAll, allLinks, linksChan, closed, wg, i,
                   pageLinksCount, task, pageLinks, closer, round, halted>>


-----------------------------------------------------------------------------
(* Strings: a Go string is a sequence of bytes.  "a", "n", "s", "5", "m",
   "t", digits and punctuation are one-byte characters, " " and "nl" are
   white space, and <<"c3", "a4">> is the two-byte UTF-8 encoding of the
   letter a-umlaut. *)

Rep(c, n) == [k \in 1..n |-> c]

Umlaut == <<"c3", "a4">>

RECURSIVE RepStr(_, _)
RepStr(s, n) == IF n = 0 THEN <<>> ELSE s \o RepStr(s, n - 1)

IsSpace(b) == b \in {" ", "nl"}

RECURSIVE TrimLeft(_)
TrimLeft(s) == IF Len(s) > 0 /\ IsSpace(Head(s)) THEN TrimLeft(Tail(s)) ELSE s

RECURSIVE TrimRight(_)
TrimRight(s) ==
    IF Len(s) > 0 /\ IsSpace(s[Len(s)]) THEN TrimRight(SubSeq(s, 1, Len(s) - 1)) ELSE s

\* strings.TrimSpace
TrimSpace(s) == TrimRight(TrimLeft(s))

RECURSIVE Join(_, _)
\* strings.Join
Join(parts, sep) ==
    IF Len(parts) = 0 THEN <<>>
    ELSE IF Len(parts) = 1 THEN parts[1]
    ELSE parts[1] \o sep \o Join(Tail(parts), sep)

-----------------------------------------------------------------------------
(* ScrapeEvent *)

\* the length above which a description is cut for the summary, and the cut length
SummaryLimit == 100

Ellipsis == <<".", ".", ".">>

ZeroTime == [y |-> 1, m |-> 1, d |-> 1, hh |-> 0, mm |-> 0, ss |-> 0]

Digits == <<"0", "1", "2", "3", "4", "5", "6", "7", "8", "9">>

IsDigit(c) == \E n \in 1..10 : Digits[n] = c

DigitVal(c) == (CHOOSE n \in 1..10 : Digits[n] = c) - 1

IsLeap(y) == (y % 4 = 0 /\ y % 100 # 0) \/ y % 400 = 0

DaysIn(y, m) == IF m = 2 THEN (IF IsLeap(y) THEN 29 ELSE 28)
                ELSE IF m \in {4, 6, 9, 11} THEN 30 ELSE 31

\* a parse that checks the layout but not the ranges of month and day
ParseDateIgnoresRange(s) ==
    IF /\ Len(s) = 10
       /\ \A k \in {1, 2, 3, 4, 6, 7, 9, 10} : IsDigit(s[k])
       /\ s[5] = "-" /\ s[8] = "-"
    THEN [ok |-> TRUE,
          t  |-> [y |-> DigitVal(s[1]) * 1000 + DigitVal(s[2]) * 100
                         + DigitVal(s[3]) * 10 + DigitVal(s[4]),
                  m |-> DigitVal(s[6]) * 10 + DigitVal(s[7]),
                  d |-> DigitVal(s[9]) * 10 + DigitVal(s[10]),
                  hh |-> 0, mm |-> 0, ss |-> 0]]
    ELSE [ok |-> FALSE, t |-> ZeroTime]

\* time.Parse("2006-01-02", s): [ok, t]
ParseDate(s) ==
    IF /\ Len(s) = 10
       /\ \A k \in {1, 2, 3, 4, 6, 7, 9, 10} : IsDigit(s[k])
       /\ s[5] = "-" /\ s[8] = "-"
    THEN LET y == DigitVal(s[1]) * 1000 + DigitVal(s[2]) * 100
                  + DigitVal(s[3]) * 10 + DigitVal(s[4])
             m == DigitVal(s[6]) * 10 + DigitVal(s[7])
             d == DigitVal(s[9]) * 10 + DigitVal(s[10]) IN
         IF m \in 1..12 /\ d >= 1 /\ d <= DaysIn(y, m)
         THEN [ok |-> TRUE, t |-> [y |-> y, m |-> m, d |-> d, hh |-> 0, mm |-> 0, ss |-> 0]]
         ELSE [ok |-> FALSE, t |-> ZeroTime]
    ELSE [ok |-> FALSE, t |-> ZeroTime]

RECURSIVE Description(_)
\* the Each loop over the description's paragraphs: a newline before every
\* paragraph but the first, unless nothing was collected so far
Description(paras) ==
    IF Len(paras) = 0 THEN <<>>
    ELSE LET before == Description(SubSeq(paras, 1, Len(paras) - 1)) IN
         (IF before # <<>> THEN before \o <<"nl">> ELSE before)
            \o TrimSpace(paras[Len(paras)])

\* the summary of a description when there is no teaser
SummaryOf(description) ==
    IF Len(description) > SummaryLimit
    THEN SubSeq(description, 1, SummaryLimit) \o Ellipsis
    ELSE description

\* the location with the postal code and city joined but not trimmed
LocationOfUntrimmed(locationName, locationStreet, locationPostal, locationCity) ==
    LET p1 == IF locationName # <<>> THEN <<locationName>> ELSE <<>>
        p2 == IF locationStreet # <<>> THEN Append(p1, locationStreet) ELSE p1
        p3 == IF locationPostal # <<>> \/ locationCity # <<>>
              THEN Append(p2, locationPostal \o <<" ">> \o locationCity)
              ELSE p2 IN
    Join(p3, <<",", " ">>)

\* the location string from the four trimmed contact fields
LocationOf(locationName, locationStreet, locationPostal, locationCity) ==
    LET p1 == IF locationName # <<>> THEN <<locationName>> ELSE <<>>
        p2 == IF locationStreet # <<>> THEN Append(p1, locationStreet) ELSE p1
        p3 == IF locationPostal # <<>> \/ locationCity # <<>>
              THEN Append(p2, TrimSpace(locationPostal \o <<" ">> \o locationCity))
              ELSE p2 IN
    Join(p3, <<",", " ">>)

NilEvent == [nil |-> TRUE, Title |-> <<>>, Summary |-> <<>>, Description |-> <<>>,
             Location |-> <<>>, Start |-> ZeroTime, End |-> ZeroTime]

Pending == [done |-> FALSE, event |-> NilEvent, err |-> "nil"]

Returned(ev, er) == [done |-> TRUE, event |-> ev, err |-> er]

\* ScrapeEvent that also gives up on a page without a title
ScrapeEventRequiresTitle(r) ==
    IF r.status # "ok" \/ ~r.article \/ TrimSpace(r.title) = <<>>
    THEN Returned(NilEvent, "error")
    ELSE Returned([NilEvent EXCEPT !.nil = FALSE, !.Title = TrimSpace(r.title)], "nil")

\* ScrapeEvent(url), r being what the GET of url gives
ScrapeEvent(r) ==
    IF r.status = "transport" THEN Returned(NilEvent, "error fetching event page")
    ELSE IF r.status = "non200" THEN Returned(NilEvent, "status code error")
    ELSE IF r.status = "parseerr" THEN Returned(NilEvent, "error parsing HTML")
    ELSE IF ~r.article THEN Returned(NilEvent, "event content not found")
    ELSE
      LET parsed == ParseDate(r.date.text)
          dated == r.date.exists /\ parsed.ok
          teaser == TrimSpace(r.teaser)
          description == Description(r.paras) IN
      Returned([nil         |-> FALSE,
                Title       |-> TrimSpace(r.title),
                Summary     |-> IF teaser # <<>> THEN teaser ELSE SummaryOf(description),
                Description |-> description,
                Location    |-> LocationOf(TrimSpace(r.loc.name), TrimSpace(r.loc.street),
                                           TrimSpace(r.loc.postal), TrimSpace(r.loc.city)),
                Start       |-> IF dated THEN parsed.t ELSE ZeroTime,
                End         |-> IF dated THEN parsed.t ELSE ZeroTime],
               "nil")

\* the detail pages the model scrapes
NoDate == [exists |-> FALSE, text |-> <<>>]

DateAttrs ==
    { NoDate,
      [exists |-> TRUE, text |-> <<"2", "0", "2", "5", "-", "0", "3", "-", "1", "6">>],
      [exists |-> TRUE, text |-> <<"2", "0", "2", "4", "-", "0", "2", "-", "2", "9">>],
      [exists |-> TRUE, text |-> <<"2", "0", "2", "5", "-", "0", "2", "-", "3", "0">>],
      [exists |-> TRUE, text |-> <<"2", "0", "2", "5", "-", "1", "3", "-", "0", "1">>],
      [exists |-> TRUE, text |-> <<"2", "0", "2", "5", "-", "0", "3", "-", "1", "6", "T">>],
      [exists |-> TRUE, text |-> <<"1", "6", ".", "0", "3", ".", "2", "0", "2", "5">>] }

Titles == { <<>>, <<" ", "t", " ">> }

Teasers == { <<>>, <<" ", "nl">>, <<" ", "t", "t", " ">> }

ParagraphLists ==
    { <<>>,
      << <<"a", " ", "a">> >>,
      << <<>>, <<"a">> >>,
      << <<" ", "a", " ">>, <<>>, <<"a", "nl">> >>,
      << Rep("a", SummaryLimit) >>,
      << Rep("a", SummaryLimit + 1) >>,
      << Rep("a", SummaryLimit - 1), <<"a">> >>,
      << RepStr(Umlaut, SummaryLimit - 1) >>,
      << Rep("a", SummaryLimit - 1) \o Umlaut >>,
      << RepStr(Umlaut, SummaryLimit + 1) >> }

Locations ==
    [name : {<<>>, <<" ", "n">>}, street : {<<>>, <<" ">>, <<"s">>},
     postal : {<<>>, <<"5">>}, city : {<<>>, <<"m", " ">>}]

NoLocation == [name |-> <<>>, street |-> <<>>, postal |-> <<>>, city |-> <<>>]

EmptyDoc(st, art) ==
    [status |-> st, article |-> art, title |-> <<>>, date |-> NoDate,
     teaser |-> <<>>, paras |-> <<>>, loc |-> NoLocation]

Responses ==
    {EmptyDoc(st, FALSE) : st \in {"transport", "non200", "parseerr", "ok"}}
    \cup [status : {"ok"}, article : {TRUE}, title : Titles, date : DateAttrs,
          teaser : Teasers, paras : ParagraphLists, loc : Locations]

\* a caller calls ScrapeEvent(url)
CallScrapeEvent ==
    /\ ~result.done
    /\ result' = ScrapeEvent(resp)
    /\ UNCHANGED <<site, kind, iterVars, parVars, mainVars, resp>>

-----------------------------------------------------------------------------
(* main: the sequential command-line loop (main.go) *)

\* Calendar.AddEvent: the calendar with one more entry; the entry's summary
\* is the event's title
AddEvent(c, ev) ==
    Append(c, [Summary |-> ev.Title, Location |-> ev.Location,
               Description |-> ev.Description, Start |-> ev.Start, End |-> ev.End])

\* what the GET of a detail page can give while main runs
MainResponses ==
    { EmptyDoc("transport", FALSE),
      EmptyDoc("ok", FALSE),
      EmptyDoc("ok", TRUE),
      [EmptyDoc("ok", TRUE) EXCEPT !.title = <<" ", "t", " ">>] }

\* iterator := NewEventLinkIterator(); cal := calendar.New(); defer ...
InitMain ==
    /\ kind = "links"
    /\ site \in [Pages -> Outcomes("links")]
    /\ InitIter
    /\ InitPar
    /\ resp = EmptyDoc("ok", FALSE)
    /\ result = Pending
    /\ mainPc = "next"
    /\ link = NoRecord
    /\ cal = <<>>
    /\ saves = 0

\* link, hasMore := iterator.Next(); if !hasMore { break }: after the break
\* main returns and the deferred function runs: recover() gives nil, cal.Save()
MainIterNext ==
    /\ mainPc = "next"
    /\ halted = "no"
    /\ LET r == IterNext(e, kind, site) IN
        /\ e' = r.it
        /\ ret' = [val |-> r.val, ok |-> r.ok]
        /\ nCalls' = nCalls + 1
        /\ falseAt' = IF ~r.ok /\ falseAt = 0 THEN nCalls + 1 ELSE falseAt
        /\ fetchLog' = IF NextFetches(e)
                       THEN Append(fetchLog, [page |-> e.currentPage,
                                              got  |-> Fetch(site, e.currentPage)])
                       ELSE fetchLog
        /\ output' = IF r.ok THEN Append(output, r.val) ELSE output
        /\ IF r.ok
           THEN /\ link' = r.val
                /\ mainPc' = "scrape"
                /\ result' = Pending
                /\ UNCHANGED saves
           ELSE /\ mainPc' = "exited"
                /\ saves' = saves + 1
                /\ UNCHANGED <<link, result>>
    /\ UNCHANGED <<site, kind, parVars, resp, cal>>

\* event, err := ScrapeEvent(link); if err != nil { log.Fatalln(err); continue }
\* if event != nil && event.Title != "" { cal.AddEvent(*event) }
\* log.Fatalln ends the process with os.Exit(1): the continue is not reached
\* and no deferred function runs
MainScrape ==
    /\ mainPc = "scrape"
    /\ halted = "no"
    /\ \E rsp \in MainResponses :
        LET r == ScrapeEvent(rsp) IN
        /\ resp' = rsp
        /\ result' = r
        /\ IF r.err # "nil"
           THEN /\ halted' = "fatal"
                /\ UNCHANGED <<mainPc, cal>>
           ELSE /\ mainPc' = "next"
                /\ cal' = IF ~r.event.nil /\ r.event.Title # <<>>
                          THEN AddEvent(cal, r.event)
                          ELSE cal
                /\ UNCHANGED halted
    /\ UNCHANGED <<site, kind, iterVars, link, saves,
                   pc, seqAll, allLinks, currentPage, hasMore, linksChan, closed, wg,
                   i, pageLinksCount, task, pageLinks, closer, round, sent, closes>>

-----------------------------------------------------------------------------
(* Specifications *)

InitScrapeIdle ==
    /\ resp = EmptyDoc("ok", FALSE)
    /\ result = Pending

InitMainIdle ==
    /\ mainPc = "idle"
    /\ link = NoRecord
    /\ cal = <<>>
    /\ saves = 0

InitI == InitSite /\ InitIter /\ InitPar /\ InitScrapeIdle /\ InitMainIdle

\* a caller pulling from a sequential iterator while the site may change
NextIter == CallNext \/ SiteChange
SpecIter == InitI /\ [][NextIter]_vars

\* a caller running the sequential and then the parallel collector on one site
NextCollect ==
    \/ CallSequential
    \/ CallParallel
    \/ LoopTest
    \/ Spawn
    \/ StartCloser
    \/ \E j \in Tasks : TaskFetch(j)
    \/ \E j \in Tasks : TaskSend(j)
    \/ \E j \in Tasks : TaskDone(j)
    \/ CloserClose
    \/ Receive
    \/ EndRound

SpecCollect == InitI /\ [][NextCollect]_vars

\* a listing that may hold one page whose request is never answered
HangOutcomes(k) == Outcomes(k) \cup {"hang"}

InitHang ==
    /\ kind \in Kinds
    /\ site \in [Pages -> HangOutcomes(kind)]
    /\ Cardinality({p \in Pages : site[p] = "hang"}) <= 1
    /\ InitIter
    /\ pc = "par"
    /\ InitParLocals
    /\ InitScrapeIdle
    /\ InitMainIdle

\* a caller running the parallel collector
NextHang ==
    \/ CallParallel
    \/ LoopTest
    \/ Spawn
    \/ StartCloser
    \/ \E j \in Tasks : TaskFetch(j)
    \/ \E j \in Tasks : TaskSend(j)
    \/ \E j \in Tasks : TaskDone(j)
    \/ CloserClose
    \/ Receive
    \/ EndRound

\* the Go scheduler runs every goroutine that can take a step: the calling
\* goroutine, each page goroutine and the closing goroutine
SpecHang ==
    /\ InitHang
    /\ [][NextHang]_vars
    /\ WF_vars(CallParallel \/ LoopTest \/ Spawn \/ StartCloser \/ Receive \/ EndRound)
    /\ \A j \in Tasks : WF_vars(TaskFetch(j) \/ TaskSend(j) \/ TaskDone(j))
    /\ WF_vars(CloserClose)

\* the command-line program running on one site
NextMain == MainIterNext \/ MainScrape
SpecMain == InitMain /\ [][NextMain]_vars

InitScrape ==
    /\ kind = "links"
    /\ site = [p \in Pages |-> "empty"]
    /\ InitIter
    /\ InitPar
    /\ resp \in Responses
    /\ result = Pending
    /\ InitMainIdle

\* a caller scraping one detail page
NextScrape == CallScrapeEvent
SpecScrape == InitScrape /\ [][NextScrape]_vars

-----------------------------------------------------------------------------
(* Helpers of the properties *)

Range(s) == {s[n] : n \in 1..Len(s)}

\* page p gives the parallel collector at least one record
Contributes(p) == Fetch(site, p) \in {"plain", "dated"}

\* the pages of round r (1-based) of the parallel collector
RoundPages(r) == ((r - 1) * batchSize + 1)..(r * batchSize)

RoundOf(p) == ((p - 1) \div batchSize) + 1

\* the pages of the round that was just decided (cursor already advanced)
LastRoundPages == (currentPage - batchSize)..(currentPage - 1)

RECURSIVE PageOrder(_, _)
\* the records of pages from..to, page by page
PageOrder(from, to) ==
    IF from > to THEN <<>>
    ELSE ParallelPageRecords(kind, site, from) \o PageOrder(from + 1, to)

\* the pages of the blocks of RecsPerPage records a sequence is made of
BlockPages(s) == [b \in 1..(Len(s) \div RecsPerPage) |-> s[(b - 1) * RecsPerPage + 1].page]

RECURSIVE Flatten(_)
Flatten(ss) == IF Len(ss) = 0 THEN <<>> ELSE Head(ss) \o Flatten(Tail(ss))

NoFetchFails == \A p \in Pages : site[p] # "fail"

\* the first page that gives no record
FirstGap == CHOOSE p \in 1..(MaxPage + 1) :
                /\ ~Contributes(p)
                /\ \A q \in 1..(p - 1) : Contributes(q)

\* within the batch that holds the first empty page, no later page has content
NoContentAfterGapInBatch ==
    \A q \in Pages : (q > FirstGap /\ RoundOf(q) = RoundOf(FirstGap)) => ~Contributes(q)

-----------------------------------------------------------------------------
(* C1: once a call of Next has returned ok=false, the most recent call of
   Next has returned ok=false too, however many calls followed and whatever
   the site has changed to since. *)
C1_FalseIsPermanent == falseAt # 0 => ~ret.ok

\* two more calls were made after the first ok=false, and the page the
\* iterator stands on would now give records
C1_Witness ==
    /\ falseAt # 0
    /\ nCalls >= falseAt + 2
    /\ Fetch(site, e.currentPage) \in {"plain", "dated"}

(* C2 as stated: when no fetch fails (the site is fixed in SpecCollect),
   GetAllEventLinks and GetAllEventLinksParallel return the same set. *)
C2_SameSetWheneverNoFetchFails ==
    (pc = "returned" /\ kind = "links" /\ NoFetchFails)
        => Range(seqAll) = Range(allLinks)

(* C2 amended: when no fetch fails and, within the batch that holds the
   first empty page, no later page has content, GetAllEventLinks and
   GetAllEventLinksParallel return the same set of links. *)
C2_SameSetOnGaplessBatches ==
    (pc = "returned" /\ kind = "links" /\ NoFetchFails /\ NoContentAfterGapInBatch)
        => Range(seqAll) = Range(allLinks)

\* a listing of more than one batch, both collectors returned, in different orders
C2_Witness ==
    /\ pc = "returned"
    /\ kind = "links"
    /\ NoFetchFails
    /\ NoContentAfterGapInBatch
    /\ Len(seqAll) > batchSize * RecsPerPage
    /\ Range(seqAll) = Range(allLinks)
    /\ seqAll # allLinks

(* C3: after every round the cursor stands batchSize further (1 + rounds *
   batchSize), whatever number of pages contributed; every page of the rounds
   run that was fetched with records has all its records in the accumulator,
   and a page whose fetch failed has none there: the failure did not abort
   the round. *)
C3_PartialFailureTolerated ==
    (pc \in {"loop", "returned"} /\ round >= 1) =>
        /\ currentPage = 1 + round * batchSize
        /\ \A p \in 1..(currentPage - 1) :
              /\ Contributes(p) =>
                    Range(ParallelPageRecords(kind, site, p)) \subseteq Range(allLinks)
              /\ Fetch(site, p) = "fail" =>
                    \A n \in 1..Len(allLinks) : allLinks[n].page # p

\* returned from a first round in which a fetch failed and two pages gave records
C3_Witness ==
    /\ pc = "returned"
    /\ \E p \in RoundPages(1) : Fetch(site, p) = "fail"
    /\ Cardinality({p \in RoundPages(1) : Contributes(p)}) >= 2
    /\ Len(allLinks) >= 2 * RecsPerPage

(* C4: when a round has been decided, hasMore holds exactly if every page
   of that round gave a record; a round is only ever started after full
   rounds; and at the return the last round was not full and the records of
   its contributing pages are in the result. *)
C4_TerminationRule ==
    /\ (pc = "loop" /\ round >= 1) =>
          (hasMore <=> \A p \in LastRoundPages : Contributes(p))
    /\ \A r \in 1..(round - 1) : \A p \in RoundPages(r) : Contributes(p)
    /\ pc = "returned" =>
          /\ ~hasMore
          /\ \E p \in RoundPages(round) : ~Contributes(p)
          /\ \A p \in RoundPages(round) : Contributes(p) =>
                Range(ParallelPageRecords(kind, site, p)) \subseteq Range(allLinks)

\* returned after a second round some page of which gave records
C4_Witness ==
    /\ pc = "returned"
    /\ round = 2
    /\ \E p \in RoundPages(2) : Contributes(p)
    /\ \E p \in RoundPages(2) : ~Contributes(p)

(* C5 as stated: the sequence returned is one function of the site, the
   same for every interleaving of the fetch tasks.  The page-order sequence
   is what the interleaving in which the tasks send in page order returns,
   so this says that every interleaving returns it. *)
C5_SameSequenceForEveryInterleaving ==
    pc = "returned" => allLinks = PageOrder(1, currentPage - 1)

(* C5 amended: for a fixed site the records returned, and how often each
   occurs, are the same for every interleaving: the result is a
   rearrangement of the page-order sequence. *)
C5_SameRecordsForEveryInterleaving ==
    pc = "returned" =>
        /\ Len(allLinks) = Len(PageOrder(1, currentPage - 1))
        /\ Range(allLinks) = Range(PageOrder(1, currentPage - 1))

\* returned with the records of two rounds, not in page order
C5_Witness ==
    /\ pc = "returned"
    /\ round = 2
    /\ allLinks # PageOrder(1, currentPage - 1)
    /\ Range(allLinks) = Range(PageOrder(1, currentPage - 1))

(* C6: the accumulator followed by the channel's content is, block by
   block, the page results in the order in which they were sent; each block
   is one page's records in document order, and the rounds of the blocks
   never decrease. *)
C6_CompletionOrderMerge ==
    LET all == allLinks \o Flatten(linksChan)
        bp == BlockPages(all) IN
    /\ Len(all) = Len(bp) * RecsPerPage
    /\ bp = sent
    /\ Len(BlockPages(allLinks)) * RecsPerPage = Len(allLinks)
    /\ \A b \in 1..Len(bp) :
          SubSeq(all, (b - 1) * RecsPerPage + 1, b * RecsPerPage)
              = ParallelPageRecords(kind, site, bp[b])
    /\ \A b \in 1..(Len(bp) - 1) : RoundOf(bp[b]) <= RoundOf(bp[b + 1])

\* returned with the first round's pages in the reverse of page order,
\* followed by a page of the second round
C6_Witness ==
    /\ pc = "returned"
    /\ Len(sent) = batchSize + 1
    /\ \A b \in 1..batchSize : BlockPages(allLinks)[b] = batchSize + 1 - b
    /\ BlockPages(allLinks)[batchSize + 1] = batchSize + 1

(* C7: the channel is closed only when all batchSize tasks of the round
   were started and have signalled completion; the collector is past its
   range loop (deciding, starting the next round, returned) only with the
   channel closed and drained and no task running; the WaitGroup counts the
   tasks that have not signalled. *)
C7_JoinBarrier ==
    /\ closed => /\ i = batchSize
                 /\ \A j \in Tasks : task[j] = "done"
                 /\ wg = 0
    /\ (pc \in {"loop", "returned"} /\ round >= 1) =>
          /\ closed
          /\ Len(linksChan) = 0
          /\ \A j \in Tasks : task[j] = "done"
    /\ wg = Cardinality({j \in Tasks : task[j] \in {"fetch", "send", "exit"}})
    /\ halted # "panic"

\* a second round is running after the first was joined
C7_Witness ==
    /\ round = 2
    /\ pc = "collect"
    /\ \E j \in Tasks : task[j] = "send"

(* C8: the process never halts: no operation of the core ends the process
   instead of returning to its caller. *)
C8_NeverHalts == halted = "no"

(* C9: ScrapeEvent returns a nil event and an error exactly when the fetch
   has a transport error, the status is not 200, the document fails to parse
   or article#SP-content is absent; in every other case a non-nil event and
   a nil error. *)
C9_ErrorExactlyOnFetchOrContainer ==
    result.done =>
        LET failing == resp.status # "ok" \/ ~resp.article IN
        /\ failing => (result.event.nil /\ result.err # "nil")
        /\ ~failing => (~result.event.nil /\ result.err = "nil")

\* an article with no title, date, teaser, paragraph or location was scraped
C9_Witness ==
    /\ result.done
    /\ resp = EmptyDoc("ok", TRUE)
    /\ ~result.event.nil
    /\ result.err = "nil"
    /\ result.event.Title = <<>>
    /\ result.event.Description = <<>>
    /\ result.event.Location = <<>>
    /\ result.event.Start = ZeroTime

\* the characters of a string: every byte but the continuation bytes starts one
IsContinuation(b) == b = "a4"

CharStarts(s) == {k \in 1..Len(s) : ~IsContinuation(s[k])}

CharCount(s) == Cardinality(CharStarts(s))

\* the first n characters of a string of more than n characters
FirstChars(s, n) ==
    LET next == CHOOSE k \in CharStarts(s) :
                    Cardinality({j \in CharStarts(s) : j < k}) = n IN
    SubSeq(s, 1, next - 1)

(* C10: the summary policy: with a non-empty teaser the summary is the
   teaser and the description the full text; otherwise a description of more
   than 100 characters gives its first 100 characters and "..." as summary,
   and a shorter one is the summary itself. *)
C10_SummaryPolicy ==
    (result.done /\ ~result.event.nil) =>
        LET teaser == TrimSpace(resp.teaser)
            description == Description(resp.paras) IN
        /\ result.event.Description = description
        /\ result.event.Summary =
              IF teaser # <<>> THEN teaser
              ELSE IF CharCount(description) > SummaryLimit
              THEN FirstChars(description, SummaryLimit) \o Ellipsis
              ELSE description

(* C11: the location is the ", " join of the non-empty ones among the
   organizer, the street and the postal/city segment, in that order; the
   postal/city segment is "postal city" when both are present and the one
   present otherwise; the location has no separator or space at either end
   and no two separators in a row. *)
C11_LocationAssembly ==
    (result.done /\ ~result.event.nil) =>
        LET name == TrimSpace(resp.loc.name)
            street == TrimSpace(resp.loc.street)
            postal == TrimSpace(resp.loc.postal)
            city == TrimSpace(resp.loc.city)
            third == IF postal # <<>> /\ city # <<>> THEN postal \o <<" ">> \o city
                     ELSE IF postal # <<>> THEN postal ELSE city
            segments == SelectSeq(<<name, street, third>>, LAMBDA x : x # <<>>)
            loc == result.event.Location IN
        /\ loc = Join(segments, <<",", " ">>)
        /\ Len(loc) > 0 => (loc[1] \notin {" ", ","} /\ loc[Len(loc)] \notin {" ", ","})
        /\ \A k \in 1..(Len(loc) - 2) : ~(loc[k] = "," /\ loc[k + 2] = ",")
        /\ Cardinality({k \in 1..Len(loc) : loc[k] = ","})
              = (IF Len(segments) = 0 THEN 0 ELSE Len(segments) - 1)

\* scraped: a page with an organizer, a blank street, no postal code and a city
C11_Witness ==
    /\ result.done
    /\ ~result.event.nil
    /\ TrimSpace(resp.loc.name) # <<>>
    /\ resp.loc.street = <<" ">>
    /\ resp.loc.postal = <<>>
    /\ resp.loc.city # <<>>
    /\ result.event.Location = <<"n", ",", " ", "m">>

(* C12: a datetime attribute that is a calendar day written YYYY-MM-DD
   gives Start = End = that day at 00:00:00; an absent attribute or any
   other text gives Start = End = the zero instant. *)
C12_DateExtraction ==
    (result.done /\ ~result.event.nil) =>
        LET s == resp.date.text
            num(a, b) == LET RECURSIVE val(_)
                             val(k) == IF k < a THEN 0
                                       ELSE val(k - 1) * 10 + DigitVal(s[k])
                         IN val(b)
            shaped == /\ resp.date.exists
                      /\ Len(s) = 10
                      /\ \A k \in {1, 2, 3, 4, 6, 7, 9, 10} : IsDigit(s[k])
                      /\ s[5] = "-" /\ s[8] = "-"
            isDay == /\ shaped
                     /\ num(6, 7) \in 1..12
                     /\ num(9, 10) \in 1..31
                     /\ (num(6, 7) \in {4, 6, 9, 11} => num(9, 10) <= 30)
                     /\ (num(6, 7) = 2 => num(9, 10) <= 29)
                     /\ (num(6, 7) = 2 /\ num(9, 10) = 29 =>
                            (num(1, 4) % 4 = 0 /\ (num(1, 4) % 100 # 0 \/ num(1, 4) % 400 = 0)))
        IN
        /\ result.event.Start = result.event.End
        /\ isDay => result.event.Start =
                      [y |-> num(1, 4), m |-> num(6, 7), d |-> num(9, 10),
                       hh |-> 0, mm |-> 0, ss |-> 0]
        /\ ~isDay => result.event.Start = ZeroTime

\* the page dated 2025-03-16 was scraped
C12_Witness ==
    /\ result.done
    /\ resp.date.exists
    /\ resp.date.text = <<"2", "0", "2", "5", "-", "0", "3", "-", "1", "6">>
    /\ result.event.Start = [y |-> 2025, m |-> 3, d |-> 16, hh |-> 0, mm |-> 0, ss |-> 0]
    /\ result.event.End = result.event.Start

\* a step that is a call of Next
IsNextCall == nCalls' = nCalls + 1

(* C13: a call of Next with an empty buffer and hasMore=true fetches
   exactly page currentPage; when the page has records the buffer becomes the
   page's records without the first, which is returned with ok=true, and
   currentPage grows by one; when it is empty or its fetch fails only hasMore
   changes (to false) and ok=false is returned, the same state for both. *)
C13_StepSemantics ==
    [][(IsNextCall /\ Len(e.links) = 0 /\ e.hasMore) =>
          LET p == e.currentPage
              o == Fetch(site, p)
              recs == [n \in 1..RecsPerPage |->
                          Rec(p, n, IF kind = "previews" /\ o = "dated"
                                    THEN "parsed" ELSE "zero")] IN
          /\ fetchLog' = Append(fetchLog, [page |-> p, got |-> o])
          /\ IF o \in {"plain", "dated"}
             THEN /\ e' = [currentPage |-> p + 1, links |-> Tail(recs), hasMore |-> TRUE]
                  /\ ret' = [val |-> recs[1], ok |-> TRUE]
             ELSE /\ e' = [currentPage |-> p, links |-> <<>>, hasMore |-> FALSE]
                  /\ ~ret'.ok]_vars

\* page 1 was fetched with records and consumed, then page 2 failed
C13_Witness ==
    /\ Len(fetchLog) = 2
    /\ fetchLog[1].got \in {"plain", "dated"}
    /\ fetchLog[2].got = "fail"
    /\ e = [currentPage |-> 2, links |-> <<>>, hasMore |-> FALSE]
    /\ ~ret.ok

(* C14: the iterator starts at page 1 with an empty buffer and
   hasMore=true; currentPage is always at least 1 and no step lowers it; no
   step turns hasMore from false to true. *)
C14_Lifecycle ==
    /\ e = [currentPage |-> 1, links |-> <<>>, hasMore |-> TRUE]
    /\ [](e.currentPage >= 1)
    /\ [][e'.currentPage >= e.currentPage /\ (~e.hasMore => ~e'.hasMore)]_vars

\* two pages consumed, the iterator exhausted and called again
C14_Witness ==
    /\ e.currentPage >= 3
    /\ ~e.hasMore
    /\ falseAt # 0
    /\ nCalls > falseAt

\* the records a logged fetch gave
RecordsOfFetch(f) ==
    IF f.got \in {"plain", "dated"}
    THEN [n \in 1..RecsPerPage |->
            Rec(f.page, n, IF kind = "previews" /\ f.got = "dated" THEN "parsed" ELSE "zero")]
    ELSE <<>>

RECURSIVE SeqPageOrder(_, _)
\* the records the sequential iterators extract from pages from..to of the site
SeqPageOrder(from, to) ==
    IF from > to THEN <<>>
    ELSE PageRecords(kind, site, from) \o SeqPageOrder(from + 1, to)

(* C15: what Next has returned with ok=true, followed by the buffer, is
   the concatenation of the records of the pages fetched, which are pages
   1, 2, ... in order; only the last fetch can be one without records, and
   after it the output is the records of pages 1..k-1; a call with a
   non-empty buffer returns and removes the front record and fetches
   nothing; GetAllEventLinks on a site returns the records of the pages
   before the first empty or failing one, in page and document order. *)
C15_SequentialOutput ==
    /\ [](/\ output \o e.links
               = Flatten([k \in 1..Len(fetchLog) |-> RecordsOfFetch(fetchLog[k])])
          /\ \A k \in 1..Len(fetchLog) : fetchLog[k].page = k
          /\ \A k \in 1..(Len(fetchLog) - 1) : fetchLog[k].got \in {"plain", "dated"}
          /\ falseAt # 0 =>
                /\ e.links = <<>>
                /\ fetchLog[Len(fetchLog)].got \in {"fail", "empty"}
                /\ Len(output) = (Len(fetchLog) - 1) * RecsPerPage
          /\ GetAllEventLinks(kind, site) = SeqPageOrder(1, FirstGap - 1))
    /\ [][(IsNextCall /\ Len(e.links) > 0) =>
             /\ ret' = [val |-> Head(e.links), ok |-> TRUE]
             /\ e' = [e EXCEPT !.links = Tail(e.links)]
             /\ output' = Append(output, Head(e.links))
             /\ fetchLog' = fetchLog]_vars

\* two pages were returned record by record, then the iterator ended
C15_Witness ==
    /\ falseAt = 2 * RecsPerPage + 1
    /\ Len(output) = 2 * RecsPerPage
    /\ output[Len(output)].page = 2
    /\ output[Len(output)].idx = RecsPerPage

(* C20: whenever hasMore is false the buffer is empty; the k-th fetch of
   an iterator asks for page k, so no page is fetched twice and none is left
   out; a call of Next adds at most one fetch; once hasMore is false no call
   fetches anything. *)
C20_FetchDiscipline ==
    /\ [](~e.hasMore => Len(e.links) = 0)
    /\ [](\A k \in 1..Len(fetchLog) : fetchLog[k].page = k)
    /\ [](Len(fetchLog) <= nCalls)
    /\ [][/\ Len(fetchLog') <= Len(fetchLog) + 1
          /\ ~e.hasMore => fetchLog' = fetchLog]_vars

\* three pages were fetched, the last one ended the iterator, and Next was
\* called twice more while the site again has records on that page
C20_Witness ==
    /\ Len(fetchLog) = 3
    /\ ~e.hasMore
    /\ nCalls >= falseAt + 2
    /\ falseAt # 0
    /\ Fetch(site, e.currentPage) \in {"plain", "dated"}

\* the pages of the messages sent are pairwise distinct: a page belongs to one
\* task of one round, so no task has sent twice
SentOncePerTask ==
    \A a, b \in 1..Len(sent) : sent[a] = sent[b] => a = b

\* the number of close(linksChan) calls that the rounds so far account for
ClosesDue ==
    IF pc \in {"spawn", "collect"}
    THEN (round - 1) + (IF closed THEN 1 ELSE 0)
    ELSE round

(* C19: in every round each task sends at most one message and the channel
   holds batchSize messages, so a task that reached its send can always
   complete it: the channel is neither full nor closed, whether or not the
   collector has started receiving; no send panics; close is called exactly
   once per round; allLinks changes only in the step of the collecting
   goroutine that receives a message. *)
C19_ChannelSafety ==
    /\ [](ChanCap = batchSize /\ Len(linksChan) <= ChanCap)
    /\ [](SentOncePerTask /\ Len(sent) <= round * batchSize)
    /\ [](\A j \in Tasks : task[j] = "send" =>
              ~closed /\ Len(linksChan) < ChanCap)
    /\ [](halted # "panic")
    /\ [](closes = ClosesDue)
    /\ [][allLinks' # allLinks =>
              /\ pc = "collect" /\ pc' = "collect"
              /\ linksChan # <<>>
              /\ linksChan' = Tail(linksChan)
              /\ allLinks' = Merge(allLinks, Head(linksChan))
              /\ task' = task]_vars

\* every task of the first round has sent and nothing was received yet: the
\* channel is full, still open, and the accumulator is empty
C19_Witness ==
    /\ round = 1
    /\ Len(linksChan) = batchSize
    /\ Len(sent) = batchSize
    /\ ~closed
    /\ allLinks = <<>>

(* C18: on a listing of previews whose pages all fetch successfully, the
   parallel extraction of a page gives the records the sequential extraction
   gives for that page, parsed instants included, every extraction goes on
   to its send, and once both collectors have returned they have returned
   the same set of records. *)
C18_PreviewCollectorsAgree ==
    (kind = "previews" /\ NoFetchFails) =>
        /\ halted = "no"
        /\ \A j \in Tasks : task[j] = "send" =>
               pageLinks[j] = PageRecords(kind, site, PageOf(j))
        /\ pc = "returned" => Range(seqAll) = Range(allLinks)

NoHang == \A p \in Pages : site[p] # "hang"

\* goroutine j of the current round waits for an answer that never comes
HungTask(j) == task[j] = "fetch" /\ Fetch(site, PageOf(j)) = "hang"

\* the tasks of the current round other than the hung one are done and the
\* collector has received one message per page with records
OthersReceived ==
    /\ \A k \in Tasks : HungTask(k) \/ task[k] = "done"
    /\ linksChan = <<>>
    /\ pageLinksCount = Cardinality({k \in Tasks : Contributes(PageOf(k))})

(* C16: when no request hangs (a round with fewer than batchSize pages
   with records always exists: the listing is finite), the parallel collector
   eventually returns; while a task hangs, the channel of its round is not
   closed and the collector does not return, ever; and the other tasks of
   that round eventually are done with their results received. *)
C16_CollectorLiveness ==
    /\ NoHang => <>(pc = "returned")
    /\ [](\A j \in Tasks : HungTask(j) => ~closed /\ pc \in {"spawn", "collect"})
    /\ []((\E j \in Tasks : HungTask(j)) => [](pc # "returned"))
    /\ (\E j \in Tasks : HungTask(j)) ~> OthersReceived

(* C17: when ScrapeEvent returns an error for a link, main goes on to the
   next call of iterator.Next with the process still running and the
   calendar as it was; the calendar is saved exactly once, when the iterator
   is exhausted, and no event is added after the save; every entry of the
   calendar comes from an event with a non-empty title. *)
C17_MainLoop ==
    /\ [][(mainPc = "scrape" /\ result' # result /\ result'.err # "nil") =>
              (mainPc' = "next" /\ halted' = "no" /\ cal' = cal)]_vars
    /\ [](saves = IF mainPc = "exited" THEN 1 ELSE 0)
    /\ [](mainPc = "exited" => ~ret.ok)
    /\ [][cal' # cal => saves' = 0]_vars
    /\ [](\A k \in 1..Len(cal) : cal[k].Summary # <<>>)


=============================================================================
